---- MODULE Spec2Model ----
(***************************************************************************)
(* Model of germanDV/pocket: the overflow-checked integer arithmetic       *)
(* (TrySafeAdd, TrySafeSub, TrySafeMul, TrySafeDiv), its panicking forms,  *)
(* the fixed-point Money value built on it, and homeDirWindows.            *)
(*                                                                         *)
(* Integers are two's-complement values of a fixed width.  The generic     *)
(* functions are instantiated by the source for 8..64 bit kinds; the       *)
(* model instantiates them for IntBits-bit kinds, and Money's int64 amount *)
(* is an AmountBits-bit signed integer.                                    *)
(***************************************************************************)
EXTENDS Integers, Sequences, FiniteSets, TLC

\* Width of the integer kind the generic checked arithmetic is exercised at.
IntBits == 5

\* ------------------------------------------------------------------------
\* Integer kinds (the type parameter T of the generic functions)

Kind(signed, bits) == [signed |-> signed, bits |-> bits]

MaxOf(k) == IF k.signed THEN 2^(k.bits - 1) - 1 ELSE 2^k.bits - 1

MinOf(k) == IF k.signed THEN -(2^(k.bits - 1)) ELSE 0

RangeOf(k) == MinOf(k)..MaxOf(k)

\* The value a fixed-width register holds after an operation whose exact
\* result is x: x modulo 2^bits, read as signed or unsigned.
Wrap(k, x) ==
    IF k.signed
    THEN ((x + 2^(k.bits - 1)) % 2^k.bits) - 2^(k.bits - 1)
    ELSE x % 2^k.bits

Abs(x) == IF x < 0 THEN -x ELSE x

\* Go's integer quotient truncates toward zero.
Quo(a, b) ==
    IF (a >= 0) = (b > 0) THEN Abs(a) \div Abs(b) ELSE -(Abs(a) \div Abs(b))

\* Go's remainder takes the sign of the dividend: a = Quo(a,b)*b + Rem(a,b).
Rem(a, b) == a - b * Quo(a, b)

\* A (value, error) return pair.
Ok(v) == [val |-> v, err |-> FALSE]

Fail == [val |-> 0, err |-> TRUE]

\* ------------------------------------------------------------------------
\* Checked arithmetic

TrySafeAdd(k, a, b) ==
    IF k.signed
    THEN LET result == Wrap(k, a + b)
         IN  IF a > 0 /\ b > 0 /\ result < 0 THEN Fail
             ELSE IF a < 0 /\ b < 0 /\ result > 0 THEN Fail
             ELSE Ok(result)
    ELSE LET maxUint == 2^k.bits - 1
         IN  IF a > Wrap(k, maxUint - b) THEN Fail
             ELSE Ok(Wrap(k, a + b))

TrySafeSub(k, a, b) ==
    IF k.signed
    THEN LET result == Wrap(k, a - b)
         IN  IF a > 0 /\ b < 0 /\ result < 0 THEN Fail
             ELSE IF a < 0 /\ b > 0 /\ result > 0 THEN Fail
             ELSE Ok(result)
    ELSE IF a < b THEN Fail
         ELSE Ok(Wrap(k, a - b))

\* TrySafeMul with the unsigned guard of TrySafeAdd (a > max - b) in place of
\* a > max / b.
TrySafeMulAddGuard(k, a, b) ==
    IF k.signed
    THEN LET result == Wrap(k, a * b)
         IN  IF a > 0 /\ b > 0 /\ result < 0 THEN Fail
             ELSE IF a < 0 /\ b < 0 /\ result < 0 THEN Fail
             ELSE IF (a > 0 /\ b < 0 /\ result > 0) \/ (a < 0 /\ b > 0 /\ result > 0)
                  THEN Fail
             ELSE Ok(result)
    ELSE IF a = 0 \/ b = 0 THEN Ok(0)
         ELSE LET maxUint == 2^k.bits - 1
              IN  IF a > Wrap(k, maxUint - b) THEN Fail
                  ELSE Ok(Wrap(k, a * b))

TrySafeMul(k, a, b) ==
    IF k.signed
    THEN LET result == Wrap(k, a * b)
         IN  IF a > 0 /\ b > 0 /\ result < 0 THEN Fail
             ELSE IF a < 0 /\ b < 0 /\ result < 0 THEN Fail
             ELSE IF (a > 0 /\ b < 0 /\ result > 0) \/ (a < 0 /\ b > 0 /\ result > 0)
                  THEN Fail
             ELSE Ok(result)
    ELSE IF a = 0 \/ b = 0 THEN Ok(0)
         ELSE LET maxUint == 2^k.bits - 1
              IN  IF a > maxUint \div b THEN Fail
                  ELSE Ok(Wrap(k, a * b))

\* TrySafeDiv without the minimum / -1 overflow check.
TrySafeDivNoOverflowCheck(k, a, b) ==
    IF b = 0 THEN Fail
    ELSE IF k.signed
         THEN Ok(Wrap(k, Quo(a, b)))
         ELSE Ok(a \div b)

TrySafeDiv(k, a, b) ==
    IF b = 0 THEN Fail
    ELSE IF k.signed
         THEN LET isOverflow == a = MinOf(k) /\ b = -1
              IN  IF isOverflow THEN Fail ELSE Ok(Wrap(k, Quo(a, b)))
         ELSE Ok(a \div b)

\* ------------------------------------------------------------------------
\* Panicking arithmetic

\* What a call that may panic does: it returns a value or it panics.
Returned(v) == [val |-> v, panic |-> FALSE]

Panic == [val |-> 0, panic |-> TRUE]

SafeAdd(k, a, b) ==
    LET r == TrySafeAdd(k, a, b)
    IN  IF r.err THEN Panic ELSE Returned(r.val)

SafeSub(k, a, b) ==
    LET r == TrySafeSub(k, a, b)
    IN  IF r.err THEN Panic ELSE Returned(r.val)

SafeMul(k, a, b) ==
    LET r == TrySafeMul(k, a, b)
    IN  IF r.err THEN Panic ELSE Returned(r.val)

SafeDiv(k, a, b) ==
    LET r == TrySafeDiv(k, a, b)
    IN  IF r.err THEN Panic ELSE Returned(r.val)

\* SafeAdd of safe_math.go, which makes the checks itself.
SafeAddStandalone(k, a, b) ==
    IF k.signed
    THEN LET result == Wrap(k, a + b)
         IN  IF a > 0 /\ b > 0 /\ result < 0 THEN Panic
             ELSE IF a < 0 /\ b < 0 /\ result > 0 THEN Panic
             ELSE Returned(result)
    ELSE LET maxUint == 2^k.bits - 1
         IN  IF a > Wrap(k, maxUint - b) THEN Panic
             ELSE Returned(Wrap(k, a + b))

\* SafeSub of safe_math.go with the sign checks of SafeAdd.
SafeSubStandaloneAddChecks(k, a, b) ==
    IF k.signed
    THEN LET result == Wrap(k, a - b)
         IN  IF a > 0 /\ b > 0 /\ result < 0 THEN Panic
             ELSE IF a < 0 /\ b < 0 /\ result > 0 THEN Panic
             ELSE Returned(result)
    ELSE IF a < b THEN Panic
         ELSE Returned(Wrap(k, a - b))

\* SafeSub of safe_math.go, which makes the checks itself.
SafeSubStandalone(k, a, b) ==
    IF k.signed
    THEN LET result == Wrap(k, a - b)
         IN  IF a > 0 /\ b < 0 /\ result < 0 THEN Panic
             ELSE IF a < 0 /\ b > 0 /\ result > 0 THEN Panic
             ELSE Returned(result)
    ELSE IF a < b THEN Panic
         ELSE Returned(Wrap(k, a - b))

\* ------------------------------------------------------------------------
\* Text: a string is a sequence of one-character strings

DigitChars == <<"0", "1", "2", "3", "4", "5", "6", "7", "8", "9">>

LowerChars == <<"a", "b", "c", "d", "e", "f", "g", "h", "i", "j", "k", "l", "m",
                "n", "o", "p", "q", "r", "s", "t", "u", "v", "w", "x", "y", "z">>

UpperChars == <<"A", "B", "C", "D", "E", "F", "G", "H", "I", "J", "K", "L", "M",
                "N", "O", "P", "Q", "R", "S", "T", "U", "V", "W", "X", "Y", "Z">>

IsDigit(c) == \E i \in 1..10 : DigitChars[i] = c

DigitVal(c) == (CHOOSE i \in 1..10 : DigitChars[i] = c) - 1

\* The decimal digits of n >= 0, most significant first.
RECURSIVE UDigits(_)
UDigits(n) ==
    IF n < 10 THEN <<DigitChars[n + 1]>>
    ELSE UDigits(n \div 10) \o <<DigitChars[(n % 10) + 1]>>

\* fmt verb %d
FmtD(n) == IF n < 0 THEN <<"-">> \o UDigits(-n) ELSE UDigits(n)

RECURSIVE Zeros(_)
Zeros(n) == IF n <= 0 THEN <<>> ELSE <<"0">> \o Zeros(n - 1)

\* fmt verb %0<width>d: the sign first, then zeros up to the width.
FmtZeroPad(width, n) ==
    LET d == UDigits(Abs(n))
        sign == IF n < 0 THEN <<"-">> ELSE <<>>
    IN  sign \o Zeros(width - Len(d) - Len(sign)) \o d

\* strings.Split(s, sep) for a one-character separator.
RECURSIVE Split(_, _)
Split(s, sep) ==
    IF \A i \in 1..Len(s) : s[i] # sep THEN <<s>>
    ELSE LET i == CHOOSE j \in 1..Len(s) :
                      s[j] = sep /\ \A h \in 1..(j - 1) : s[h] # sep
         IN  <<SubSeq(s, 1, i - 1)>> \o Split(SubSeq(s, i + 1, Len(s)), sep)

ToUpperChar(c) ==
    IF \E i \in 1..26 : LowerChars[i] = c
    THEN UpperChars[CHOOSE i \in 1..26 : LowerChars[i] = c]
    ELSE c

\* strings.ToUpper
ToUpper(s) == [i \in 1..Len(s) |-> ToUpperChar(s[i])]

RECURSIVE DigitsValue(_)
DigitsValue(s) ==
    IF s = <<>> THEN 0
    ELSE 10 * DigitsValue(SubSeq(s, 1, Len(s) - 1)) + DigitVal(s[Len(s)])

\* strconv.ParseInt(s, 10, bits): an optional sign, then one or more decimal
\* digits; a value outside the signed range of the width is an error.
ParseInt(s, bits) ==
    IF s = <<>> THEN Fail
    ELSE LET neg == s[1] = "-"
             body == IF s[1] = "+" \/ s[1] = "-" THEN Tail(s) ELSE s
         IN  IF body = <<>> \/ \E i \in 1..Len(body) : ~IsDigit(body[i]) THEN Fail
             ELSE LET un == DigitsValue(body)
                  IN  IF ~neg /\ un >= 2^(bits - 1) THEN Fail
                      ELSE IF neg /\ un > 2^(bits - 1) THEN Fail
                      ELSE Ok(IF neg THEN -un ELSE un)

\* ------------------------------------------------------------------------
\* Money

\* Width of Money's amount; int64 in the source.
AmountBits == 11

MaxPrecision == 8

Int64 == Kind(TRUE, AmountBits)

USD == <<"U", "S", "D">>

ARS == <<"A", "R", "S">>

Money(amount, currency, precision, initialized) ==
    [amount |-> amount, currency |-> currency, precision |-> precision,
     initialized |-> initialized]

\* Money{}: the zero value of the struct.
ZeroMoney == Money(0, <<>>, 0, FALSE)

MOk(m) == [val |-> m, err |-> FALSE]

MFail == [val |-> ZeroMoney, err |-> TRUE]

NewUSD(amount) == Money(amount, USD, 2, TRUE)

NewARS(amount) == Money(amount, ARS, 2, TRUE)

\* NewMoney rejecting the largest precision too.
NewMoneyOffByOne(amount, currency, precision) ==
    IF precision < 0 THEN MFail
    ELSE IF precision >= MaxPrecision THEN MFail
    ELSE MOk(Money(amount, currency, precision, TRUE))

\* NewMoney without the upper limit on the precision.
NewMoneyNoUpperLimit(amount, currency, precision) ==
    IF precision < 0 THEN MFail
    ELSE MOk(Money(amount, currency, precision, TRUE))

NewMoney(amount, currency, precision) ==
    IF precision < 0 THEN MFail
    ELSE IF precision > MaxPrecision THEN MFail
    ELSE MOk(Money(amount, currency, precision, TRUE))

\* NewMoneyFromString ignoring tokens after the second.
NewMoneyFromStringExtraTokens(s) ==
    LET parts == Split(s, " ")
    IN  IF Len(parts) < 2 THEN MFail
        ELSE
        LET amount == parts[1]
            currency == ToUpper(parts[2])
            amountParts == Split(amount, ".")
        IN  IF Len(amountParts) # 2 THEN MFail
            ELSE
            LET precision == Len(amountParts[2])
            IN  IF precision > MaxPrecision THEN MFail
                ELSE
                LET amountInt == ParseInt(amountParts[1], AmountBits)
                    amountFrac == ParseInt(amountParts[2], AmountBits)
                IN  IF amountInt.err THEN MFail
                    ELSE IF amountFrac.err THEN MFail
                    ELSE
                    LET multiplier == 10^precision
                        total == Wrap(Int64, amountInt.val * multiplier)
                        signed == IF amountInt.val < 0
                                  THEN Wrap(Int64, total - amountFrac.val)
                                  ELSE Wrap(Int64, total + amountFrac.val)
                    IN  NewMoney(signed, currency, precision)

NewMoneyFromString(s) ==
    LET parts == Split(s, " ")
    IN  IF Len(parts) # 2 THEN MFail
        ELSE
        LET amount == parts[1]
            currency == ToUpper(parts[2])
            amountParts == Split(amount, ".")
        IN  IF Len(amountParts) # 2 THEN MFail
            ELSE
            LET precision == Len(amountParts[2])
            IN  IF precision > MaxPrecision THEN MFail
                ELSE
                LET amountInt == ParseInt(amountParts[1], AmountBits)
                    amountFrac == ParseInt(amountParts[2], AmountBits)
                IN  IF amountInt.err THEN MFail
                    ELSE IF amountFrac.err THEN MFail
                    ELSE
                    LET multiplier == 10^precision
                        total == Wrap(Int64, amountInt.val * multiplier)
                        signed == IF amountInt.val < 0
                                  THEN Wrap(Int64, total - amountFrac.val)
                                  ELSE Wrap(Int64, total + amountFrac.val)
                    IN  NewMoney(signed, currency, precision)

\* The loop "divisor *= 10" run `precision` times on an int64.
RECURSIVE Divisor(_)
Divisor(precision) ==
    IF precision <= 0 THEN 1 ELSE Wrap(Int64, Divisor(precision - 1) * 10)

\* String printing major and minor units for every amount.
StringAlwaysMajorMinor(m) ==
    IF ~m.initialized THEN <<>>
    ELSE IF m.precision = 0 THEN FmtD(m.amount)
    ELSE
    LET divisor == Divisor(m.precision)
        major == Wrap(Int64, Quo(m.amount, divisor))
        rem == Rem(m.amount, divisor)
        minor == IF rem < 0 THEN Wrap(Int64, -rem) ELSE rem
    IN  FmtD(major) \o <<".">> \o FmtZeroPad(m.precision, minor)

String(m) ==
    IF ~m.initialized THEN <<>>
    ELSE IF m.precision = 0 THEN FmtD(m.amount)
    ELSE
    LET divisor == Divisor(m.precision)
    IN  IF m.amount < 0 /\ Wrap(Int64, -m.amount) < divisor
        THEN FmtD(m.amount) \o <<".">> \o FmtZeroPad(m.precision, 0)
        ELSE IF m.amount >= 0 /\ m.amount < divisor
        THEN FmtD(m.amount) \o <<".">> \o FmtZeroPad(m.precision, 0)
        ELSE
        LET major == Wrap(Int64, Quo(m.amount, divisor))
            rem == Rem(m.amount, divisor)
            minor == IF rem < 0 THEN Wrap(Int64, -rem) ELSE rem
        IN  FmtD(major) \o <<".">> \o FmtZeroPad(m.precision, minor)

\* Format without the check for the zero value.
FormatUnguarded(m) ==
    String(m) \o <<" ">> \o m.currency

Format(m) ==
    IF ~m.initialized THEN <<>>
    ELSE String(m) \o <<" ">> \o m.currency

\* Plus building its result with the precision of the argument.
PlusOtherPrecision(m, other) ==
    IF ~m.initialized \/ ~other.initialized THEN MFail
    ELSE IF m.currency # other.currency THEN MFail
    ELSE LET sum == TrySafeAdd(Int64, m.amount, other.amount)
         IN  IF sum.err THEN MFail
             ELSE NewMoney(sum.val, m.currency, other.precision)

\* Plus without the currency comparison.
PlusAnyCurrency(m, other) ==
    IF ~m.initialized \/ ~other.initialized THEN MFail
    ELSE LET sum == TrySafeAdd(Int64, m.amount, other.amount)
         IN  IF sum.err THEN MFail
             ELSE NewMoney(sum.val, m.currency, m.precision)

Plus(m, other) ==
    IF ~m.initialized \/ ~other.initialized THEN MFail
    ELSE IF m.currency # other.currency THEN MFail
    ELSE LET sum == TrySafeAdd(Int64, m.amount, other.amount)
         IN  IF sum.err THEN MFail
             ELSE NewMoney(sum.val, m.currency, m.precision)

\* Minus adding the amounts, as Plus does.
MinusAdds(m, other) ==
    IF ~m.initialized \/ ~other.initialized THEN MFail
    ELSE IF m.currency # other.currency THEN MFail
    ELSE LET diff == TrySafeAdd(Int64, m.amount, other.amount)
         IN  IF diff.err THEN MFail
             ELSE NewMoney(diff.val, m.currency, m.precision)

Minus(m, other) ==
    IF ~m.initialized \/ ~other.initialized THEN MFail
    ELSE IF m.currency # other.currency THEN MFail
    ELSE LET diff == TrySafeSub(Int64, m.amount, other.amount)
         IN  IF diff.err THEN MFail
             ELSE NewMoney(diff.val, m.currency, m.precision)

\* Inc without the check for the zero value.
IncUnguarded(m, amount) ==
    LET sum == TrySafeAdd(Int64, m.amount, amount)
    IN  IF sum.err THEN MFail
        ELSE NewMoney(sum.val, m.currency, m.precision)

Inc(m, amount) ==
    IF ~m.initialized THEN MFail
    ELSE LET sum == TrySafeAdd(Int64, m.amount, amount)
         IN  IF sum.err THEN MFail
             ELSE NewMoney(sum.val, m.currency, m.precision)

Dec(m, amount) ==
    IF ~m.initialized THEN MFail
    ELSE LET diff == TrySafeSub(Int64, m.amount, amount)
         IN  IF diff.err THEN MFail
             ELSE NewMoney(diff.val, m.currency, m.precision)

Times(m, amount) ==
    IF ~m.initialized THEN MFail
    ELSE LET prod == TrySafeMul(Int64, m.amount, amount)
         IN  IF prod.err THEN MFail
             ELSE NewMoney(prod.val, m.currency, m.precision)

\* DividedBy guarding only against a zero divisor, dividing unchecked.
DividedByZeroGuardOnly(m, divisor) ==
    IF ~m.initialized THEN MFail
    ELSE IF divisor = 0 THEN MFail
    ELSE NewMoney(Wrap(Int64, Quo(m.amount, divisor)), m.currency, m.precision)

DividedBy(m, divisor) ==
    IF ~m.initialized THEN MFail
    ELSE
    LET quotient == TrySafeDiv(Int64, m.amount, divisor)
    IN  IF quotient.err THEN MFail
        ELSE
        LET remainder == Rem(m.amount, divisor)
            absReminder == IF remainder < 0 THEN Wrap(Int64, -remainder)
                           ELSE remainder
            absDivisor == IF divisor < 0 THEN Wrap(Int64, -divisor) ELSE divisor
            rounded ==
                IF Wrap(Int64, absReminder * 2) >= absDivisor
                THEN IF (m.amount >= 0 /\ divisor > 0) \/ (m.amount < 0 /\ divisor < 0)
                     THEN Wrap(Int64, quotient.val + 1)
                     ELSE Wrap(Int64, quotient.val - 1)
                ELSE quotient.val
        IN  NewMoney(rounded, m.currency, m.precision)

Currency(m) == m.currency

Precision(m) == m.precision

Amount(m) == m.amount

\* Equals comparing amount and currency only.
EqualsAnyPrecision(m, other) ==
    /\ m.amount = Amount(other)
    /\ m.currency = Currency(other)

Equals(m, other) ==
    /\ m.amount = Amount(other)
    /\ m.currency = Currency(other)
    /\ m.precision = Precision(other)

\* ------------------------------------------------------------------------
\* State: one call of a checked-arithmetic function on a pair of operands

VARIABLES mkind, ma, mb, mop, mres

mathVars == <<mkind, ma, mb, mop, mres>>

\* The client of Money: it holds one Money value held, obtained from a
\* constructor, and keeps calling methods on it.
\*   op     the last call
\*   recv   its receiver and arg its arguments, as they are after the call
\*   held   the Money held: what the last Money-returning call returned
\*   err    whether the last call returned an error
\*   shown  the last Format call: its receiver m and the text s it returned
\*   src    the text held was parsed from, <<>> when it is not the result of a parse
\*   steps  the number of calls made
\*   same   what the last call returned when it was Equals, else FALSE
\*   prior  the receiver m and the argument n of the call before the last one
\*          when the last call follows a successful Plus, else NoPrior
\*   got    what the last call returned when it was Amount, Precision (n) or
\*          Currency (c), else NotGot
VARIABLES op, recv, arg, held, err, shown, src, steps, same, prior, got

moneyVars == <<op, recv, arg, held, err, shown, src, steps, same, prior, got>>

\* The process environment homeDirWindows reads, and what its call returned.
VARIABLES env, home

dirVars == <<env, home>>

vars == <<mkind, ma, mb, mop, mres, op, recv, arg, held, err, shown, src, steps,
          same, prior, got, env, home>>

Kinds == {Kind(TRUE, IntBits), Kind(FALSE, IntBits)}

\* arguments of a call: a Money, an int64, a text, a currency, a precision
NoArgs == [m |-> ZeroMoney, n |-> 0, s |-> <<>>, c |-> <<>>, p |-> 0]

NotShown == [m |-> ZeroMoney, s |-> <<>>]

NotGot == [n |-> 0, c |-> <<>>]

NoPrior == [m |-> ZeroMoney, n |-> ZeroMoney]

\* What the next state remembers of the call that produced the current one.
PriorOf == IF op = "Plus" /\ ~err THEN [m |-> recv, n |-> arg.m] ELSE NoPrior

NoEnv == [HOME |-> <<>>, USERPROFILE |-> <<>>, HOMEDRIVE |-> <<>>, HOMEPATH |-> <<>>]

\* A (string, error) return pair; called tells whether a call was made.
NotCalled == [called |-> FALSE, path |-> <<>>, err |-> FALSE]

DirsIdle ==
    /\ env = NoEnv
    /\ home = NotCalled

MoneyIdle ==
    /\ op = "none"
    /\ recv = ZeroMoney
    /\ arg = NoArgs
    /\ held = ZeroMoney
    /\ err = FALSE
    /\ shown = NotShown
    /\ src = <<>>
    /\ steps = 0
    /\ same = FALSE
    /\ prior = NoPrior
    /\ got = NotGot

MathInit ==
    /\ mkind \in Kinds
    /\ ma \in RangeOf(mkind)
    /\ mb \in RangeOf(mkind)
    /\ mop = "none"
    /\ mres = Ok(0)
    /\ MoneyIdle
    /\ DirsIdle

CallTrySafeAdd ==
    /\ mop = "none"
    /\ mop' = "add"
    /\ mres' = TrySafeAdd(mkind, ma, mb)
    /\ UNCHANGED <<mkind, ma, mb>>
    /\ UNCHANGED <<moneyVars, dirVars>>

CallTrySafeSub ==
    /\ mop = "none"
    /\ mop' = "sub"
    /\ mres' = TrySafeSub(mkind, ma, mb)
    /\ UNCHANGED <<mkind, ma, mb>>
    /\ UNCHANGED <<moneyVars, dirVars>>

CallTrySafeMul ==
    /\ mop = "none"
    /\ mop' = "mul"
    /\ mres' = TrySafeMul(mkind, ma, mb)
    /\ UNCHANGED <<mkind, ma, mb>>
    /\ UNCHANGED <<moneyVars, dirVars>>

CallTrySafeDiv ==
    /\ mop = "none"
    /\ mop' = "div"
    /\ mres' = TrySafeDiv(mkind, ma, mb)
    /\ UNCHANGED <<mkind, ma, mb>>
    /\ UNCHANGED <<moneyVars, dirVars>>

CallSafeAdd ==
    /\ mop = "none"
    /\ mop' = "SafeAdd"
    /\ mres' = SafeAdd(mkind, ma, mb)
    /\ UNCHANGED <<mkind, ma, mb>>
    /\ UNCHANGED <<moneyVars, dirVars>>

CallSafeSub ==
    /\ mop = "none"
    /\ mop' = "SafeSub"
    /\ mres' = SafeSub(mkind, ma, mb)
    /\ UNCHANGED <<mkind, ma, mb>>
    /\ UNCHANGED <<moneyVars, dirVars>>

CallSafeMul ==
    /\ mop = "none"
    /\ mop' = "SafeMul"
    /\ mres' = SafeMul(mkind, ma, mb)
    /\ UNCHANGED <<mkind, ma, mb>>
    /\ UNCHANGED <<moneyVars, dirVars>>

CallSafeDiv ==
    /\ mop = "none"
    /\ mop' = "SafeDiv"
    /\ mres' = SafeDiv(mkind, ma, mb)
    /\ UNCHANGED <<mkind, ma, mb>>
    /\ UNCHANGED <<moneyVars, dirVars>>

CallSafeAddStandalone ==
    /\ mop = "none"
    /\ mop' = "SafeAddStandalone"
    /\ mres' = SafeAddStandalone(mkind, ma, mb)
    /\ UNCHANGED <<mkind, ma, mb>>
    /\ UNCHANGED <<moneyVars, dirVars>>

CallSafeSubStandalone ==
    /\ mop = "none"
    /\ mop' = "SafeSubStandalone"
    /\ mres' = SafeSubStandalone(mkind, ma, mb)
    /\ UNCHANGED <<mkind, ma, mb>>
    /\ UNCHANGED <<moneyVars, dirVars>>

MathNext ==
    \/ CallTrySafeAdd
    \/ CallTrySafeSub
    \/ CallTrySafeMul
    \/ CallTrySafeDiv
    \/ CallSafeAdd
    \/ CallSafeSub
    \/ CallSafeMul
    \/ CallSafeDiv
    \/ CallSafeAddStandalone
    \/ CallSafeSubStandalone

SpecMath == MathInit /\ [][MathNext]_vars

\* ------------------------------------------------------------------------
\* The Money client: inputs

\* Largest precision the client constructs values with.
PrecBound == 2

\* Number of calls the client makes.
MaxCalls == 3

MinInt64 == MinOf(Int64)

MaxInt64 == MaxOf(Int64)

AmountInputs ==
    {MinInt64, MinInt64 + 1, -(2^(AmountBits - 2)), -105, -100, -5, 0,
     5, 50, 100, 105, 2^(AmountBits - 2), MaxInt64}

NumInputs == {MinInt64, -3, -1, 0, 1, 2, 3, MaxInt64}

CurrencyInputs == {USD, ARS, <<"u", "s", "d">>}

PrecisionInputs == {-1} \cup (0..PrecBound) \cup {MaxPrecision + 1}

OtherInputs ==
    {NewUSD(1), NewUSD(MinInt64), NewARS(1), ZeroMoney,
     Money(100, USD, 1, TRUE)}

\* The values the client compares m with: m itself rebuilt, m at another
\* precision, m in another currency, the zero value, and a fixed value.
EqualsInputs(m) ==
    {Money(m.amount, m.currency, m.precision, TRUE),
     Money(m.amount, m.currency, IF m.precision = 0 THEN 1 ELSE 0, TRUE),
     Money(m.amount, ARS, m.precision, TRUE),
     ZeroMoney,
     NewUSD(100)}

IntPartInputs ==
    {<<"0">>, <<"-", "0">>, <<"1">>, <<"-", "1">>, <<"1", "0">>, <<"+", "1">>,
     <<"0", "1">>, <<>>, <<"a">>, FmtD(MaxInt64), FmtD(MinInt64),
     FmtD(MaxInt64 + 1)}

FracPartInputs ==
    {<<"5">>, <<"5", "0">>, <<"0", "5">>, <<"0", "0">>, <<>>, <<"-", "5">>,
     <<"x">>, Zeros(MaxPrecision + 1)}

TextInputs ==
    {i \o <<".">> \o f \o <<" ">> \o c :
        i \in IntPartInputs, f \in FracPartInputs, c \in {USD, <<"u", "s", "d">>}}
    \cup {<<>>, USD,
          <<"1", ".", "5">> \o USD,
          <<"1", ".", "5", " ">> \o USD \o <<" ">> \o USD,
          <<"1", ".", "5", " ", " ">> \o USD,
          <<"1", "5", " ">> \o USD,
          <<"1", ".", "5", ".", "5", " ">> \o USD}

\* ------------------------------------------------------------------------
\* The Money client: calls

\* Returns for a method that stores its result in its receiver.
ReturnsInPlace(name, receiver, a, r, from) ==
    /\ op' = name
    /\ recv' = r.val
    /\ arg' = a
    /\ held' = r.val
    /\ err' = r.err
    /\ src' = from
    /\ steps' = steps + 1
    /\ same' = FALSE
    /\ prior' = PriorOf
    /\ got' = NotGot
    /\ UNCHANGED shown
    /\ UNCHANGED <<mathVars, dirVars>>

\* The bookkeeping of a call that returns (Money, error).
Returns(name, receiver, a, r, from) ==
    /\ op' = name
    /\ recv' = receiver
    /\ arg' = a
    /\ held' = r.val
    /\ err' = r.err
    /\ src' = from
    /\ steps' = steps + 1
    /\ same' = FALSE
    /\ prior' = PriorOf
    /\ got' = NotGot
    /\ UNCHANGED shown
    /\ UNCHANGED <<mathVars, dirVars>>

CallNewMoney ==
    /\ steps = 0
    /\ \E amount \in AmountInputs, currency \in CurrencyInputs,
          precision \in PrecisionInputs :
          Returns("NewMoney", ZeroMoney,
                  [NoArgs EXCEPT !.n = amount, !.c = currency, !.p = precision],
                  NewMoney(amount, currency, precision), <<>>)

CallNewUSD ==
    /\ steps = 0
    /\ \E amount \in AmountInputs :
          Returns("NewUSD", ZeroMoney, [NoArgs EXCEPT !.n = amount],
                  MOk(NewUSD(amount)), <<>>)

CallNewARS ==
    /\ steps = 0
    /\ \E amount \in AmountInputs :
          Returns("NewARS", ZeroMoney, [NoArgs EXCEPT !.n = amount],
                  MOk(NewARS(amount)), <<>>)

\* The client parses a text of its own at the start, and later the text the
\* last Format call returned.
CallNewMoneyFromString ==
    /\ steps < MaxCalls
    /\ steps = 0 \/ op = "Format"
    /\ \E s \in (IF steps = 0 THEN TextInputs ELSE {shown.s}) :
          Returns("NewMoneyFromString", ZeroMoney, [NoArgs EXCEPT !.s = s],
                  NewMoneyFromString(s), s)

CallFormat ==
    /\ steps \in 1..(MaxCalls - 1)
    /\ op' = "Format"
    /\ recv' = held
    /\ arg' = NoArgs
    /\ err' = FALSE
    /\ shown' = [m |-> held, s |-> Format(held)]
    /\ steps' = steps + 1
    /\ same' = FALSE
    /\ prior' = PriorOf
    /\ got' = NotGot
    /\ UNCHANGED <<held, src>>
    /\ UNCHANGED <<mathVars, dirVars>>

\* String on the held value; the text returned is kept in shown.
CallString ==
    /\ steps \in 1..(MaxCalls - 1)
    /\ op' = "String"
    /\ recv' = held
    /\ arg' = NoArgs
    /\ err' = FALSE
    /\ shown' = [m |-> held, s |-> String(held)]
    /\ steps' = steps + 1
    /\ same' = FALSE
    /\ prior' = PriorOf
    /\ got' = NotGot
    /\ UNCHANGED <<held, src>>
    /\ UNCHANGED <<mathVars, dirVars>>

\* Equals on the held value and another Money.
CallEquals ==
    /\ steps \in 1..(MaxCalls - 1)
    /\ \E other \in EqualsInputs(held) :
          /\ op' = "Equals"
          /\ recv' = held
          /\ arg' = [NoArgs EXCEPT !.m = other]
          /\ err' = FALSE
          /\ same' = Equals(held, other)
          /\ prior' = PriorOf
          /\ got' = NotGot
          /\ steps' = steps + 1
          /\ UNCHANGED <<held, src, shown>>
          /\ UNCHANGED <<mathVars, dirVars>>

\* The bookkeeping of an accessor call, which returns v.
Reads(name, v) ==
    /\ op' = name
    /\ recv' = held
    /\ arg' = NoArgs
    /\ err' = FALSE
    /\ got' = v
    /\ steps' = steps + 1
    /\ same' = FALSE
    /\ prior' = PriorOf
    /\ UNCHANGED <<held, src, shown>>
    /\ UNCHANGED <<mathVars, dirVars>>

CallAmount ==
    /\ steps \in 1..(MaxCalls - 1)
    /\ Reads("Amount", [NotGot EXCEPT !.n = Amount(held)])

CallCurrency ==
    /\ steps \in 1..(MaxCalls - 1)
    /\ Reads("Currency", [NotGot EXCEPT !.c = Currency(held)])

CallPrecision ==
    /\ steps \in 1..(MaxCalls - 1)
    /\ Reads("Precision", [NotGot EXCEPT !.n = Precision(held)])

CallPlus ==
    /\ steps \in 1..(MaxCalls - 1)
    /\ \E other \in OtherInputs :
          Returns("Plus", held, [NoArgs EXCEPT !.m = other], Plus(held, other), <<>>)

CallMinus ==
    /\ steps \in 1..(MaxCalls - 1)
    /\ \E other \in OtherInputs :
          Returns("Minus", held, [NoArgs EXCEPT !.m = other], Minus(held, other), <<>>)

CallInc ==
    /\ steps \in 1..(MaxCalls - 1)
    /\ \E amount \in NumInputs :
          Returns("Inc", held, [NoArgs EXCEPT !.n = amount], Inc(held, amount), <<>>)

CallDec ==
    /\ steps \in 1..(MaxCalls - 1)
    /\ \E amount \in NumInputs :
          Returns("Dec", held, [NoArgs EXCEPT !.n = amount], Dec(held, amount), <<>>)

CallTimes ==
    /\ steps \in 1..(MaxCalls - 1)
    /\ \E amount \in NumInputs :
          Returns("Times", held, [NoArgs EXCEPT !.n = amount], Times(held, amount), <<>>)

CallDividedBy ==
    /\ steps \in 1..(MaxCalls - 1)
    /\ \E divisor \in NumInputs :
          Returns("DividedBy", held, [NoArgs EXCEPT !.n = divisor],
                  DividedBy(held, divisor), <<>>)

MathIdle ==
    /\ mkind = Kind(TRUE, IntBits)
    /\ ma = 0
    /\ mb = 0
    /\ mop = "none"
    /\ mres = Ok(0)

Init == MathIdle /\ MoneyIdle /\ DirsIdle

Next ==
    \/ CallNewMoney
    \/ CallNewUSD
    \/ CallNewARS
    \/ CallNewMoneyFromString
    \/ CallFormat
    \/ CallString
    \/ CallEquals
    \/ CallAmount
    \/ CallCurrency
    \/ CallPrecision
    \/ CallPlus
    \/ CallMinus
    \/ CallInc
    \/ CallDec
    \/ CallTimes
    \/ CallDividedBy

Spec == Init /\ [][Next]_vars

\* NewMoney alone, over every precision from below 0 to above the limit.  The
\* values are not formatted or parsed here, so no power of ten is needed.
CallNewMoneyAnyPrecision ==
    /\ steps = 0
    /\ \E amount \in AmountInputs, currency \in CurrencyInputs,
          precision \in (-1)..(MaxPrecision + 1) :
          Returns("NewMoney", ZeroMoney,
                  [NoArgs EXCEPT !.n = amount, !.c = currency, !.p = precision],
                  NewMoney(amount, currency, precision), <<>>)

SpecNewMoney == Init /\ [][CallNewMoneyAnyPrecision]_vars

\* ------------------------------------------------------------------------
\* The home directory on Windows

\* os.Getenv returns the empty text for a variable that is not set.
HomeInputs == {<<>>, <<"/", "h">>, <<"/", "r">>}

UserProfileInputs == {<<>>, <<"C", ":", "\\", "u">>, <<"D", ":", "\\", "v">>}

HomeDriveInputs == {<<>>, <<"C", ":">>, <<"D", ":">>}

HomePathInputs == {<<>>, <<"\\", "u">>, <<"\\", "v">>}

homeDirWindows(e) ==
    IF e.USERPROFILE # <<>> THEN [path |-> e.USERPROFILE, err |-> FALSE]
    ELSE IF e.HOME # <<>> THEN [path |-> e.HOME, err |-> FALSE]
    ELSE LET drive == e.HOMEDRIVE
             path == e.HOMEPATH
             home_ == drive \o path
         IN  IF drive = <<>> \/ path = <<>> THEN [path |-> <<>>, err |-> TRUE]
             ELSE [path |-> home_, err |-> FALSE]

DirsInit ==
    /\ env \in [HOME : HomeInputs, USERPROFILE : UserProfileInputs,
                HOMEDRIVE : HomeDriveInputs, HOMEPATH : HomePathInputs]
    /\ home = NotCalled
    /\ MathIdle
    /\ MoneyIdle

CallHomeDirWindows ==
    /\ ~home.called
    /\ LET r == homeDirWindows(env)
       IN  home' = [called |-> TRUE, path |-> r.path, err |-> r.err]
    /\ UNCHANGED env
    /\ UNCHANGED <<mathVars, moneyVars>>

SpecDirs == DirsInit /\ [][CallHomeDirWindows]_vars

\* ------------------------------------------------------------------------
\* Claims

InRange(k, x) == MinOf(k) <= x /\ x <= MaxOf(k)

\* C2: for signed operands, TrySafeAdd errors whenever a+b is outside the
\* kind's range and otherwise returns exactly a+b without error.
C2_SignedAddExact ==
    (mop = "add" /\ mkind.signed) =>
        IF InRange(mkind, ma + mb)
        THEN ~mres.err /\ mres.val = ma + mb
        ELSE mres.err

\* C3: for signed operands, TrySafeSub errors whenever a-b is outside the
\* kind's range and otherwise returns exactly a-b without error.
C3_SignedSubExact ==
    (mop = "sub" /\ mkind.signed) =>
        IF InRange(mkind, ma - mb)
        THEN ~mres.err /\ mres.val = ma - mb
        ELSE mres.err

\* C4: for signed operands, TrySafeMul errors whenever a*b is outside the
\* kind's range and otherwise returns exactly a*b without error.
C4_SignedMulExact ==
    (mop = "mul" /\ mkind.signed) =>
        IF InRange(mkind, ma * mb)
        THEN ~mres.err /\ mres.val = ma * mb
        ELSE mres.err

\* The exact, unbounded-integer result of the last Plus, Minus, Inc, Dec or
\* Times call on the scaled amounts.
ExactResult ==
    CASE op = "Plus" -> recv.amount + arg.m.amount
      [] op = "Minus" -> recv.amount - arg.m.amount
      [] op = "Inc" -> recv.amount + arg.n
      [] op = "Dec" -> recv.amount - arg.n
      [] op = "Times" -> recv.amount * arg.n
      [] OTHER -> 0

\* The last call is a Plus, Minus, Inc, Dec or Times whose operands are
\* initialized and, for Plus and Minus, of one currency.
ArithmeticCall ==
    /\ op \in {"Plus", "Minus", "Inc", "Dec", "Times"}
    /\ recv.initialized
    /\ op \in {"Plus", "Minus"} =>
          arg.m.initialized /\ arg.m.currency = recv.currency

\* C1: every successful Plus, Minus, Inc, Dec or Times returns the exact
\* unbounded-integer result of the operation on the scaled amounts, and a call
\* whose exact result is outside the signed range of the amount returns an
\* error (so the amount after any sequence of successful calls is exact).
C1_ArithmeticExactOrError ==
    ArithmeticCall =>
        /\ ~err => held.amount = ExactResult
        /\ ~InRange(Int64, ExactResult) => err

\* C5: for unsigned operands with maximum M, TrySafeAdd errors iff a+b > M,
\* TrySafeSub iff a < b, TrySafeMul iff a*b > M (0 without error when an
\* operand is 0), and every non-error result is the exact result.
C5_UnsignedExact ==
    (mop \in {"add", "sub", "mul"} /\ ~mkind.signed) =>
        LET M == MaxOf(mkind)
            exact == CASE mop = "add" -> ma + mb
                       [] mop = "sub" -> ma - mb
                       [] mop = "mul" -> ma * mb
        IN  /\ mop = "add" => (mres.err <=> ma + mb > M)
            /\ mop = "sub" => (mres.err <=> ma < mb)
            /\ mop = "mul" => (mres.err <=> ma * mb > M)
            /\ (mop = "mul" /\ (ma = 0 \/ mb = 0)) => (~mres.err /\ mres.val = 0)
            /\ ~mres.err => mres.val = exact

\* An unsigned multiplication that overflows has been reported as an error.
C5_Witness ==
    /\ mop = "mul"
    /\ ~mkind.signed
    /\ ma * mb > MaxOf(mkind)
    /\ mres.err

\* C6: TrySafeDiv errors exactly when b = 0, or the kind is signed, a is its
\* minimum and b = -1; otherwise it returns, without error, the quotient
\* truncated toward zero: a = q*b + r with |r| < |b| and r zero or of a's sign.
C6_DivErrorsAndTruncates ==
    mop = "div" =>
        /\ mres.err <=> (mb = 0 \/ (mkind.signed /\ ma = MinOf(mkind) /\ mb = -1))
        /\ ~mres.err =>
              LET r == ma - mres.val * mb
              IN  /\ Abs(r) < Abs(mb)
                  /\ r = 0 \/ ((r > 0) = (ma > 0))

\* A signed division with operands of opposite sign and a nonzero remainder
\* has returned its quotient.
C6_Witness ==
    /\ mop = "div"
    /\ mkind.signed
    /\ ma < 0
    /\ mb > 1
    /\ ma - mres.val * mb # 0
    /\ ~mres.err

\* n is the integer nearest to a/d, an exact half rounded away from zero.
NearestHalfAway(a, d, n) ==
    \/ 2 * Abs(a - n * d) < Abs(d)
    \/ /\ 2 * Abs(a - n * d) = Abs(d)
       /\ Abs(n * d) > Abs(a)

\* C7: when DividedBy succeeds, the resulting amount is the integer nearest to
\* the exact quotient amount/divisor, an exact half rounded away from zero,
\* over the whole signed range of amount and divisor.
C7_DividedByRoundsHalfUp ==
    (op = "DividedBy" /\ recv.initialized /\ ~err) =>
        NearestHalfAway(recv.amount, arg.n, held.amount)

\* C8: DividedBy on an initialized Money errors exactly when the divisor is 0
\* or the amount is the minimum and the divisor is -1; otherwise it returns an
\* initialized Money.
C8_DividedByErrors ==
    (op = "DividedBy" /\ recv.initialized) =>
        /\ err <=> (arg.n = 0 \/ (recv.amount = MinInt64 /\ arg.n = -1))
        /\ ~err => held.initialized

\* The minimum amount has been divided by -1 and the call failed.
C8_Witness ==
    /\ op = "DividedBy"
    /\ recv.initialized
    /\ recv.amount = MinInt64
    /\ arg.n = -1
    /\ err

IsUpperLetter(c) == \E i \in 1..26 : UpperChars[i] = c

\* C9: for m built by NewMoney with precision 1..8 and an upper-case currency
\* code without spaces, parsing the text m.Format() returned succeeds and the
\* parsed Money Equals m.
C9_FormatThenParse ==
    ( /\ op = "NewMoneyFromString"
      /\ arg.s = shown.s
      /\ shown.m.initialized
      /\ shown.m.precision \in 1..MaxPrecision
      /\ shown.m.currency # <<>>
      /\ \A i \in 1..Len(shown.m.currency) : IsUpperLetter(shown.m.currency[i]) )
    => (~err /\ Equals(held, shown.m))

\* "<signed-integer>.<1 to 8 digits> <UPPER-CASE CURRENCY>", the integer part
\* without redundant leading zeros.
Canonical(t) ==
    LET parts == Split(t, " ")
    IN  /\ Len(parts) = 2
        /\ parts[2] # <<>>
        /\ \A i \in 1..Len(parts[2]) : IsUpperLetter(parts[2][i])
        /\ LET amountParts == Split(parts[1], ".")
           IN  /\ Len(amountParts) = 2
               /\ LET int == amountParts[1]
                      frac == amountParts[2]
                      digits == IF int # <<>> /\ int[1] = "-" THEN Tail(int) ELSE int
                  IN  /\ Len(frac) \in 1..MaxPrecision
                      /\ \A i \in 1..Len(frac) : IsDigit(frac[i])
                      /\ digits # <<>>
                      /\ \A i \in 1..Len(digits) : IsDigit(digits[i])
                      /\ Len(digits) > 1 => digits[1] # "0"
                      /\ int # <<"-", "0">>

\* C10: for every canonical text that NewMoneyFromString accepts, Format of
\* the parsed Money returns exactly that text.
C10_ParseThenFormat ==
    (op = "Format" /\ src # <<>> /\ recv.initialized /\ Canonical(src)) =>
        shown.s = src

\* ------------------------------------------------------------------------
\* Reading a text "<I>.<F> <C>"

CountChar(t, c) == Cardinality({i \in 1..Len(t) : t[i] = c})

FirstIndex(t, c) == CHOOSE i \in 1..Len(t) : t[i] = c /\ \A h \in 1..(i - 1) : t[h] # c

\* The amount token: the text before the first space.
AmountText(t) == SubSeq(t, 1, FirstIndex(t, " ") - 1)

\* The text has one space, and one decimal point in its amount token.
OneSpaceOneDot(t) == CountChar(t, " ") = 1 /\ CountChar(AmountText(t), ".") = 1

IntText(t) == SubSeq(t, 1, FirstIndex(t, ".") - 1)

FracText(t) == SubSeq(t, FirstIndex(t, ".") + 1, FirstIndex(t, " ") - 1)

CurText(t) == SubSeq(t, FirstIndex(t, " ") + 1, Len(t))

HasSign(t) == t # <<>> /\ (t[1] = "-" \/ t[1] = "+")

Unsigned(t) == IF HasSign(t) THEN Tail(t) ELSE t

AllDigits(t) == \A i \in 1..Len(t) : IsDigit(t[i])

\* The number a signed digit string denotes.
NumberOf(t) ==
    IF t # <<>> /\ t[1] = "-" THEN -DigitsValue(Unsigned(t)) ELSE DigitsValue(Unsigned(t))

\* I * 10^precision plus F for I >= 0, minus F for I negative, unbounded.
ExactScaled(t) ==
    LET i == NumberOf(IntText(t))
        f == NumberOf(FracText(t))
        scale == 10^Len(FracText(t))
    IN  IF i >= 0 THEN i * scale + f ELSE i * scale - f

\* C11: String of an initialized Money is the bare decimal amount at
\* precision 0, and otherwise "<major>.<minor>": major the amount divided by
\* 10^p truncated toward zero, minor |amount| mod 10^p in exactly p digits.
C11_StringMajorMinor ==
    (op = "String" /\ recv.initialized) =>
        shown.s =
            IF recv.precision = 0 THEN FmtD(recv.amount)
            ELSE FmtD(Quo(recv.amount, 10^recv.precision)) \o <<".">>
                 \o FmtZeroPad(recv.precision, Abs(recv.amount) % 10^recv.precision)

\* C12: for every accepted text "<I>.<F> <C>" the result has precision the
\* number of characters of F, currency C upper-cased, and amount
\* I*10^precision + F for I >= 0, I*10^precision - F for I negative.
C12_ParsedFields ==
    (op = "NewMoneyFromString" /\ ~err) =>
        /\ held.precision = Len(FracText(arg.s))
        /\ held.currency = ToUpper(CurText(arg.s))
        /\ held.amount = ExactScaled(arg.s)

C14_NonDigitsRejected ==
    (op = "NewMoneyFromString" /\ OneSpaceOneDot(arg.s)) =>
        /\ ~AllDigits(Unsigned(IntText(arg.s))) => err
        /\ ~AllDigits(FracText(arg.s)) => err

\* C15: whenever the integer and fractional parts are integers but
\* I*10^precision plus or minus F does not fit the amount's width,
\* NewMoneyFromString returns an error.
C15_ParseOverflowRejected ==
    ( /\ op = "NewMoneyFromString"
      /\ OneSpaceOneDot(arg.s)
      /\ Len(FracText(arg.s)) <= MaxPrecision
      /\ ~ParseInt(IntText(arg.s), AmountBits).err
      /\ ~ParseInt(FracText(arg.s), AmountBits).err
      /\ ~InRange(Int64, ExactScaled(arg.s)) )
    => err

\* C16: NewMoney errors iff precision < 0 or precision > 8, and otherwise the
\* accessors return exactly the arguments given.
C16_NewMoneyValidates ==
    op = "NewMoney" =>
        /\ err <=> (arg.p < 0 \/ arg.p > 8)
        /\ ~err => /\ held.initialized
                   /\ Amount(held) = arg.n
                   /\ Currency(held) = arg.c
                   /\ Precision(held) = arg.p

\* NewMoney has succeeded at precision 8.
C16_Witness ==
    /\ op = "NewMoney"
    /\ arg.p = 8
    /\ ~err
    /\ Precision(held) = 8

\* C17: every Money the client holds or has used as a receiver, the values
\* returned alongside errors included, has precision in 0..8.
C17_PrecisionInRange ==
    /\ held.precision \in 0..8
    /\ recv.precision \in 0..8
    /\ shown.m.precision \in 0..8

\* NewMoney has been refused precision 9, and the value returned with the
\* error has precision 0.
C17_Witness ==
    /\ op = "NewMoney"
    /\ arg.p = 9
    /\ err
    /\ held.precision = 0

\* C18: for initialized operands whose currencies differ, Plus and Minus
\* return an error and the zero value; for equal currencies and an exact
\* result within the amount's range they succeed.
C18_CurrencyMismatch ==
    (op \in {"Plus", "Minus"} /\ recv.initialized /\ arg.m.initialized) =>
        /\ recv.currency # arg.m.currency => (err /\ held = ZeroMoney)
        /\ (recv.currency = arg.m.currency /\ InRange(Int64, ExactResult)) => ~err

\* Plus on operands whose currencies differ only in case has failed.
C18_Witness ==
    /\ op = "Plus"
    /\ recv.initialized
    /\ recv.currency = <<"u", "s", "d">>
    /\ arg.m.currency = USD
    /\ err

\* C19: on the zero-value Money, String and Format return the empty text and
\* Plus, Minus, Inc, Dec, Times and DividedBy return an error; Plus and Minus
\* also return an error when only the other operand is the zero value.
C19_Uninitialized ==
    /\ (op \in {"String", "Format"} /\ ~recv.initialized) => shown.s = <<>>
    /\ (op \in {"Plus", "Minus", "Inc", "Dec", "Times", "DividedBy"}
        /\ ~recv.initialized) => err
    /\ (op \in {"Plus", "Minus"} /\ recv.initialized /\ ~arg.m.initialized) => err

\* Format has been called on the zero value returned by a failed constructor.
C19_Witness ==
    /\ op = "Format"
    /\ ~recv.initialized
    /\ recv = ZeroMoney
    /\ shown.s = <<>>

\* C20: Equals is true iff amount, currency and precision are all the same.
C20_EqualsFields ==
    op = "Equals" =>
        (same <=> /\ recv.amount = arg.m.amount
                  /\ recv.currency = arg.m.currency
                  /\ recv.precision = arg.m.precision)

\* Two values of the same amount and currency but different precision have
\* compared unequal.
C20_Witness ==
    /\ op = "Equals"
    /\ recv.initialized
    /\ arg.m.initialized
    /\ recv.amount = arg.m.amount
    /\ recv.currency = arg.m.currency
    /\ recv.precision # arg.m.precision
    /\ ~same

\* C21: for initialized m and n of one currency such that m.Plus(n) returns
\* no error, (m.Plus(n)).Minus(n) returns no error and its result Equals m.
C21_PlusMinusInverse ==
    (op = "Minus" /\ prior # NoPrior /\ arg.m = prior.n) =>
        (~err /\ Equals(held, prior.m))

\* The smallest amount has been added to the largest and taken back by Minus.
C21_Witness ==
    /\ op = "Minus"
    /\ prior # NoPrior
    /\ arg.m = prior.n
    /\ prior.m.amount = MaxInt64
    /\ prior.n.amount = MinInt64
    /\ recv.amount = -1
    /\ ~err
    /\ held.amount = MaxInt64

\* The methods of Money that return a new Money, and those that only read.
Arithmetic == {"Plus", "Minus", "Inc", "Dec", "Times", "DividedBy"}

Readers == {"Equals", "String", "Format", "Amount", "Currency", "Precision"}

Agrees(s, t) == (s.panic <=> t.err) /\ (~t.err => s.val = t.val)

\* C23: for Add, Sub, Mul and Div and every pair of operands of a kind, the
\* panicking form panics exactly when the result-returning form returns an
\* error, and otherwise returns the same value; so do the SafeAdd and SafeSub
\* that make the sign checks themselves.
C23_SafeAgreesWithTrySafe ==
    /\ mop = "SafeAdd" => Agrees(mres, TrySafeAdd(mkind, ma, mb))
    /\ mop = "SafeSub" => Agrees(mres, TrySafeSub(mkind, ma, mb))
    /\ mop = "SafeMul" => Agrees(mres, TrySafeMul(mkind, ma, mb))
    /\ mop = "SafeDiv" => Agrees(mres, TrySafeDiv(mkind, ma, mb))
    /\ mop = "SafeAddStandalone" => Agrees(mres, TrySafeAdd(mkind, ma, mb))
    /\ mop = "SafeSubStandalone" => Agrees(mres, TrySafeSub(mkind, ma, mb))

\* The SafeSub that makes the checks itself has panicked on a negative minus
\* a positive, where TrySafeSub returns an error.
C23_Witness ==
    /\ mop = "SafeSubStandalone"
    /\ mkind.signed
    /\ ma < 0
    /\ mb > 0
    /\ mres.panic
    /\ TrySafeSub(mkind, ma, mb).err

\* C24: homeDirWindows returns HOME when HOME is set, even if USERPROFILE is
\* set too; USERPROFILE when only that is set; HOMEDRIVE followed by HOMEPATH
\* when neither is set but both of these are; an error and the empty path
\* when none is set.
C24_HomeDirPriority ==
    home.called =>
        /\ env.HOME # <<>> => (~home.err /\ home.path = env.HOME)
        /\ (env.HOME = <<>> /\ env.USERPROFILE # <<>>) =>
              (~home.err /\ home.path = env.USERPROFILE)
        /\ (env.HOME = <<>> /\ env.USERPROFILE = <<>>
            /\ env.HOMEDRIVE # <<>> /\ env.HOMEPATH # <<>>) =>
              (~home.err /\ home.path = env.HOMEDRIVE \o env.HOMEPATH)
        /\ env = NoEnv => (home.err /\ home.path = <<>>)

\* C25: every successful Plus, Minus, Inc, Dec, Times and DividedBy returns
\* an initialized Money whose currency and precision are those of the
\* receiver.
C25_CurrencyPrecisionKept ==
    (op \in Arithmetic /\ ~err) =>
        /\ held.initialized
        /\ held.currency = recv.currency
        /\ held.precision = recv.precision

\* Plus of an argument of another precision has returned a Money of the
\* receiver's precision and another amount.
C25_Witness ==
    /\ op = "Plus"
    /\ ~err
    /\ recv.precision # arg.m.precision
    /\ held.initialized
    /\ held.precision = recv.precision
    /\ held.currency = recv.currency
    /\ held.amount # recv.amount

C27_FailureAbsorbing ==
    /\ [](/\ (op \in {"NewMoney", "NewMoneyFromString"} \cup Arithmetic /\ err) =>
                held = ZeroMoney
          /\ (op \in Arithmetic /\ ~recv.initialized) => (err /\ held = ZeroMoney)
          /\ (op \in {"Plus", "Minus"} /\ ~arg.m.initialized) =>
                (err /\ held = ZeroMoney)
          /\ (op \in {"String", "Format"} /\ ~recv.initialized) => shown.s = <<>>)
    /\ [][(steps >= 1 /\ ~held.initialized) => ~held'.initialized]_vars

\* The zero value returned by a failed call has been the receiver of Inc,
\* which failed again.
C27_Witness ==
    /\ op = "Inc"
    /\ steps >= 2
    /\ recv = ZeroMoney
    /\ arg.n = 1
    /\ err
    /\ held = ZeroMoney

Max2(a, b) == IF a >= b THEN a ELSE b

\* The value of m in units of 10^-p, for p at least the precision of m.
ValueAt(m, p) == m.amount * 10^(p - m.precision)

\* C28: whenever Plus or Minus succeeds, the decimal value of the result,
\* amount / 10^precision, is the sum, respectively the difference, of the
\* decimal values of the two operands; operands of different precision are
\* not combined by adding their raw amounts.
C28_DecimalValueExact ==
    (op \in {"Plus", "Minus"} /\ ~err) =>
        LET p == Max2(recv.precision, Max2(arg.m.precision, held.precision))
        IN  ValueAt(held, p) =
                IF op = "Plus" THEN ValueAt(recv, p) + ValueAt(arg.m, p)
                ELSE ValueAt(recv, p) - ValueAt(arg.m, p)

\* C29: for every accepted text whose amount token begins with '-', the
\* parsed amount is at most zero and is -(|integer part| * 10^precision +
\* fractional part), also when the integer part is zero.
C29_NegativeAmounts ==
    (op = "NewMoneyFromString" /\ ~err /\ arg.s[1] = "-") =>
        /\ held.amount <= 0
        /\ held.amount =
              -(Abs(NumberOf(IntText(arg.s))) * 10^Len(FracText(arg.s))
                + NumberOf(FracText(arg.s)))

====
